---- MODULE Spec2Model ----
(***************************************************************************)
(* htmlincluder: the standalone core API (core.mjs), the registry it fills *)
(* (pageFiles / insertFiles / wrapFiles of config.mjs), the resolution     *)
(* engine it calls (processFile of parse.mjs) and the watch driver of the  *)
(* command line (cli.mjs).                                                 *)
(*                                                                         *)
(* Text is a sequence of tokens.  An ordinary character is a one-letter    *)
(* string, a tag is one token holding the tag's text, so that              *)
(* String.split, String.indexOf and String.trim are computed on the text   *)
(* as the code computes them.                                              *)
(***************************************************************************)
EXTENDS Integers, Sequences, FiniteSets, TLC

VARIABLES
  fs,           \* the source tree: path -> [exists, content]
  pageFiles,    \* config.mjs: array of page file objects
  insertFiles,  \* config.mjs: object, path -> insert file object
  wrapFiles,    \* config.mjs: object, path -> wrap file object
  options,      \* config.mjs: the options of the last setOptions
  call,         \* the last API call and how it ended
  eng,          \* parse.mjs: the engine run that is followed pass by pass
  builds,       \* cli.mjs: the processDirectory calls of the build command
  debounceTimer,\* cli.mjs watchFiles: the timer of rebuild: "off", "armed",
                \* or "due" once its 100 ms have passed
  watcher       \* cli.mjs: "none", "watching" once watchFiles ran, "exited"

watchVars == <<builds, debounceTimer, watcher>>
vars == <<fs, pageFiles, insertFiles, wrapFiles, options, call, eng,
          builds, debounceTimer, watcher>>

(***************************************************************************)
(* Bounds of the model.                                                    *)
(***************************************************************************)
MaxLen == 4      \* longest file content of the clip specification, in tokens
MaxPasses == 4   \* passes after which the model stops following an uncapped engine
MaxLimit == 3    \* largest dev.limitIterations tried
MaxBuilds == 3   \* processDirectory calls of one watch session that are followed
TickMs == 50     \* milliseconds by which the clock of the debounce specification advances

(***************************************************************************)
(* Text.                                                                   *)
(***************************************************************************)
WS == " "
ClipBeforeTag == "<!--#clipbefore-->"         \* matches /<!--#clipbefore\s*-->/
ClipBeforeBad == "<!--#clipbefore x-->"       \* has the prefix, not the pattern
ClipAfterTag == "<!--#clipafter-->"
ClipBetweenTag == "<!--#clipbetween-->"       \* matches /<!--#clipbetween\s*-->/
ClipBetweenBad == "<!--#clipbetween x-->"     \* has the prefix, not the pattern
EndClipBetweenTag == "<!--#endclipbetween-->" \* matches /<!--#endclipbetween\s*-->/
Undefined == "undefined"                      \* the text of String(undefined)

ClipTags ==
  {ClipBeforeTag, ClipBeforeBad, ClipAfterTag,
   ClipBetweenTag, ClipBetweenBad, EndClipBetweenTag}

SeqsUpTo(S, n) == UNION {[1..k -> S] : k \in 0..n}

\* String.prototype.indexOf(prefix) > -1, for the tags that start with it
Contains(s, toks) == \E i \in 1..Len(s) : s[i] \in toks

FirstIndex(s, toks) == CHOOSE i \in 1..Len(s) :
  s[i] \in toks /\ \A j \in 1..(i - 1) : s[j] \notin toks

\* String.prototype.split(separator): the pieces between the matches, in order
RECURSIVE split(_, _)
split(s, seps) ==
  IF ~Contains(s, seps) THEN <<s>>
  ELSE LET i == FirstIndex(s, seps)
       IN <<SubSeq(s, 1, i - 1)>> \o split(SubSeq(s, i + 1, Len(s)), seps)

\* String.prototype.trim()
RECURSIVE trim(_)
trim(s) ==
  IF s = <<>> THEN s
  ELSE IF Head(s) = WS THEN trim(Tail(s))
  ELSE IF s[Len(s)] = WS THEN trim(SubSeq(s, 1, Len(s) - 1))
  ELSE s

(***************************************************************************)
(* Paths.                                                                  *)
(***************************************************************************)
SrcDir == "src"
PageP == [dir |-> "src", name |-> "p.html"]
PageQ == [dir |-> "src/sub", name |-> "q.html"]
InsI == [dir |-> "src", name |-> "-i.html"]
InsJ == [dir |-> "src", name |-> "-j.html"]
WrapW == [dir |-> "src", name |-> "_w.html"]
Paths == {PageP, PageQ, InsI, InsJ, WrapW}

basename(filePath) == filePath.name

\* String.prototype.startsWith, on the names of the model
startsWith(name, ch) ==
  CASE ch = "-" -> name \in {"-i.html", "-j.html"}
    [] ch = "_" -> name \in {"_w.html"}
    [] OTHER -> FALSE

NoFile == [exists |-> FALSE, content |-> <<>>]
File(c) == [exists |-> TRUE, content |-> c]

(***************************************************************************)
(* core.mjs: file objects and clipping.                                    *)
(***************************************************************************)
\* createFileObject without the trim of line 151
createFileObject_untrimmed(filePath, content) ==
  [path |-> filePath,
   name |-> basename(filePath),
   content |-> content,
   processed |-> FALSE,
   file |-> [path |-> filePath, contents |-> content]]

createFileObject(filePath, content) ==
  [path |-> filePath,
   name |-> basename(filePath),
   content |-> trim(content),
   processed |-> FALSE,
   file |-> [path |-> filePath, contents |-> content]]

\* A thrown TypeError is the result [threw |-> TRUE].
Thrown(content) == [threw |-> TRUE, content |-> content]
Value(content) == [threw |-> FALSE, content |-> content]

\* lines 175-179: .splice(1)[0] of the pieces, .split, .splice(0, 1)[0]
pieceAfterClipBefore(content, parts) ==
  IF Len(parts) < 2 THEN Thrown(content)
  ELSE Value(split(parts[2], {ClipAfterTag})[1])

\* lines 174-180: the clipbefore / clipafter step
clipBeforeAfter(content) ==
  IF Contains(content, {ClipBeforeTag, ClipBeforeBad})
  THEN pieceAfterClipBefore(content, split(content, {ClipBeforeTag}))
  ELSE Value(content)

\* line 185: tmp[0] + rest[1], the text "undefined" when rest[1] is undefined
joinAroundClip(head, rest) ==
  Value(head \o (IF Len(rest) < 2 THEN <<Undefined>> ELSE rest[2]))

\* lines 184-185
piecesAroundClip(content, tmp) ==
  IF Len(tmp) < 2 THEN Thrown(content)
  ELSE joinAroundClip(tmp[1], split(tmp[2], {EndClipBetweenTag}))

\* lines 183-186: the clipbetween step
clipBetween(content) ==
  IF Contains(content, {ClipBetweenTag, ClipBetweenBad})
  THEN piecesAroundClip(content, split(content, {ClipBetweenTag}))
  ELSE Value(content)

\* the second step runs on what the first one assigned
clipSecond(file, c1) ==
  IF c1.threw THEN c1 ELSE clipBetween(c1.content)

clipResult(file, c) ==
  [threw |-> c.threw,
   file |-> IF c.threw THEN file ELSE [file EXCEPT !.content = c.content]]

processClip(file) ==
  clipResult(file, clipSecond(file, clipBeforeAfter(file.content)))

(***************************************************************************)
(* config.mjs: the registry.  pageFiles is an array (reset sets its length *)
(* to 0 and processDirectory iterates it), insertFiles and wrapFiles are   *)
(* objects keyed by path.                                                  *)
(***************************************************************************)
NoRecords == [p \in {} |-> createFileObject(PageP, <<>>)]
EmptyRegistry ==
  [pageFiles |-> <<>>, insertFiles |-> NoRecords, wrapFiles |-> NoRecords]
Registry ==
  [pageFiles |-> pageFiles, insertFiles |-> insertFiles, wrapFiles |-> wrapFiles]

\* obj[key] = value
Put(obj, key, value) ==
  [k \in DOMAIN obj \cup {key} |-> IF k = key THEN value ELSE obj[k]]

\* register(path, content), after clipping: classify by the first character
\* of the name, insert the record or overwrite the one with the same path
configureFiles(reg, file) ==
  IF startsWith(file.name, "-")
  THEN [reg EXCEPT !.insertFiles = Put(reg.insertFiles, file.path, file)]
  ELSE IF startsWith(file.name, "_")
  THEN [reg EXCEPT !.wrapFiles = Put(reg.wrapFiles, file.path, file)]
  ELSE IF \E n \in 1..Len(reg.pageFiles) : reg.pageFiles[n].path = file.path
  THEN [reg EXCEPT !.pageFiles =
         [n \in 1..Len(reg.pageFiles) |->
            IF reg.pageFiles[n].path = file.path THEN file ELSE reg.pageFiles[n]]]
  ELSE [reg EXCEPT !.pageFiles = Append(reg.pageFiles, file)]

\* core.mjs hashFile: clip, then categorise; a throw of processClip leaves
\* the registry as it was
categorise(reg, clipped) ==
  IF clipped.threw THEN [threw |-> TRUE, reg |-> reg]
  ELSE [threw |-> FALSE, reg |-> configureFiles(reg, clipped.file)]

\* hashFile without the processClip of line 165
hashFile_unclipped(reg, file) ==
  categorise(reg, [threw |-> FALSE, file |-> file])

hashFile(reg, file) == categorise(reg, processClip(file))

\* delete obj[key], for every key of keys
Delete(obj, keys) == [k \in DOMAIN obj \ keys |-> obj[k]]

\* reset without the loop of line 225
reset_keepWraps(reg) ==
  [pageFiles |-> <<>>,
   insertFiles |-> Delete(reg.insertFiles, DOMAIN reg.insertFiles),
   wrapFiles |-> reg.wrapFiles]

\* reset without line 223
reset_keepPages(reg) ==
  [pageFiles |-> reg.pageFiles,
   insertFiles |-> Delete(reg.insertFiles, DOMAIN reg.insertFiles),
   wrapFiles |-> Delete(reg.wrapFiles, DOMAIN reg.wrapFiles)]

\* core.mjs reset
reset(reg) ==
  [pageFiles |-> <<>>,
   insertFiles |-> Delete(reg.insertFiles, DOMAIN reg.insertFiles),
   wrapFiles |-> Delete(reg.wrapFiles, DOMAIN reg.wrapFiles)]

(***************************************************************************)
(* parse.mjs: the resolution engine, a fixed point of substitution passes. *)
(***************************************************************************)
InsertITag == "<!--#insert path='-i.html' -->"
InsertJTag == "<!--#insert path='-j.html' -->"
WrapWTag == "<!--#wrap path='_w.html' -->"
EndWrapTag == "<!--#endwrap -->"
MiddleTag == "<!--#middle -->"
InsertTags == {InsertITag, InsertJTag}

\* the file a tag's path attribute names
Target(tag) ==
  CASE tag = InsertITag -> InsI
    [] tag = InsertJTag -> InsJ
    [] OTHER -> WrapW

NoLimit == 0 - 1   \* dev.limitIterations: null

\* innermost Wrap ... EndWrap pair: the first EndWrap and the nearest Wrap
\* before it
HasWrap(text) ==
  /\ Contains(text, {EndWrapTag})
  /\ \E s \in 1..(FirstIndex(text, {EndWrapTag}) - 1) : text[s] = WrapWTag
WrapEnd(text) == FirstIndex(text, {EndWrapTag})
WrapStart(text) == CHOOSE s \in 1..(WrapEnd(text) - 1) :
  text[s] = WrapWTag /\ \A t \in (s + 1)..(WrapEnd(text) - 1) : text[t] # WrapWTag

HasDirective(text) == Contains(text, InsertTags) \/ HasWrap(text)

\* the paths the directives of this pass look up
Wanted(text) ==
  {Target(text[n]) : n \in {m \in 1..Len(text) : text[m] \in InsertTags}}
    \cup (IF HasWrap(text) THEN {WrapW} ELSE {})

Known(reg) == DOMAIN reg.insertFiles \cup DOMAIN reg.wrapFiles

\* lookup misses are loaded from the file system and registered, in path order
PathOrder == <<InsI, InsJ, WrapW, PageP, PageQ>>
loadOne(reg, files, p) ==
  IF files[p].exists /\ p \notin Known(reg)
  THEN hashFile(reg, createFileObject(p, files[p].content)).reg
  ELSE reg

RECURSIVE lazyLoad(_, _, _)
lazyLoad(reg, files, todo) ==
  IF todo = <<>> THEN reg
  ELSE lazyLoad(loadOne(reg, files, Head(todo)), files, Tail(todo))

\* the text a path stands for; a missing fragment is the empty text
lookup(reg, p) ==
  IF p \in DOMAIN reg.insertFiles THEN reg.insertFiles[p].content
  ELSE IF p \in DOMAIN reg.wrapFiles THEN reg.wrapFiles[p].content
  ELSE <<>>

RECURSIVE substInserts(_, _)
substInserts(text, reg) ==
  IF text = <<>> THEN <<>>
  ELSE (IF Head(text) \in InsertTags THEN lookup(reg, Target(Head(text)))
        ELSE <<Head(text)>>) \o substInserts(Tail(text), reg)

RECURSIVE substMiddle(_, _)
substMiddle(shell, body) ==
  IF shell = <<>> THEN <<>>
  ELSE (IF Head(shell) = MiddleTag THEN body ELSE <<Head(shell)>>)
         \o substMiddle(Tail(shell), body)

\* the wrapped body goes into the shell, where its Middle tag stands
wrapPass(text, reg, s, e) ==
  substInserts(SubSeq(text, 1, s - 1), reg)
    \o substMiddle(lookup(reg, WrapW),
                   substInserts(SubSeq(text, s + 1, e - 1), reg))
    \o substInserts(SubSeq(text, e + 1, Len(text)), reg)

\* one substitution pass over the text, left to right
onePass(text, reg) ==
  IF HasWrap(text)
  THEN wrapPass(text, reg, WrapStart(text), WrapEnd(text))
  ELSE substInserts(text, reg)

passConds(text, reg) ==
  (IF Wanted(text) \ Known(reg) # {} THEN {"MissingFragment"} ELSE {})
    \cup (IF HasWrap(text) /\ ~Contains(lookup(reg, WrapW), {MiddleTag})
          THEN {"InvalidDirective"} ELSE {})

newEngine(text) ==
  [state |-> "Scanning", text |-> text, passes |-> 0, conds |-> {}]

\* a pass: the fragments it looks up are in reg1, loaded where they were missing
passOver(e, reg1) ==
  [e |-> [e EXCEPT !.text = onePass(e.text, reg1),
                   !.passes = @ + 1,
                   !.conds = @ \cup passConds(e.text, reg1)],
   reg |-> reg1]

enginePass(e, reg, files) ==
  passOver(e, lazyLoad(reg, files,
                       SelectSeq(PathOrder, LAMBDA p : p \in Wanted(e.text))))

\* engineStep without the iteration cap
engineStep_uncapped(e, reg, files, limit) ==
  IF ~HasDirective(e.text)
  THEN [e |-> [e EXCEPT !.state = "Stable"], reg |-> reg]
  ELSE enginePass(e, reg, files)

\* one step of the engine: Stable when no directive is left, IterationExceeded
\* when the cap is reached, otherwise one more pass
engineStep(e, reg, files, limit) ==
  IF ~HasDirective(e.text)
  THEN [e |-> [e EXCEPT !.state = "Stable"], reg |-> reg]
  ELSE IF limit # NoLimit /\ e.passes >= limit
  THEN [e |-> [e EXCEPT !.state = "IterationExceeded",
                        !.conds = @ \cup {"UnresolvedDirective"}],
        reg |-> reg]
  ELSE enginePass(e, reg, files)

\* the engine run to its end; an engine that is still Scanning after
\* MaxPasses passes has not settled
RECURSIVE runEngine(_, _, _, _)
runEngine(r, files, limit, fuel) ==
  IF r.e.state # "Scanning" \/ r.e.passes >= fuel THEN r
  ELSE runEngine(engineStep(r.e, r.reg, files, limit), files, limit, fuel)

\* the options object: dev.limitIterations, NoLimit when the object is {}
Options(limit) == [dev |-> [limitIterations |-> limit]]
setOptions(opts) == opts
limitOf(opts) == opts.dev.limitIterations

\* processFile(file, jsonInput): the settled result of the engine on the
\* file's content
processed(r) ==
  [settled |-> r.e.state # "Scanning",
   content |-> r.e.text,
   passes |-> r.e.passes,
   conds |-> r.e.conds,
   reg |-> r.reg]

processFile(file, reg, files, opts) ==
  processed(runEngine([e |-> newEngine(file.content), reg |-> reg],
                      files, limitOf(opts), MaxPasses))

(***************************************************************************)
(* core.mjs: processContent.                                               *)
(***************************************************************************)
VirtualFile(basePath) == [dir |-> basePath, name |-> "virtual-file.html"]

processContent(content, basePath, opts, reg, files) ==
  processFile(createFileObject(VirtualFile(basePath), content), reg, files,
              setOptions(opts))

(***************************************************************************)
(* The clip specification: one file of any content up to MaxLen tokens is  *)
(* registered (processDirectory lines 40-42), or handed to processContent. *)
(***************************************************************************)
ClipTokens == {"a", WS, InsertITag} \cup ClipTags
ClipPaths == {PageP, InsI, WrapW}
Idle == [op |-> "none"]
NotWatching ==
  /\ builds = <<>>
  /\ debounceTimer = "off"
  /\ watcher = "none"

InitClip ==
  /\ \E p \in ClipPaths : \E c \in SeqsUpTo(ClipTokens, MaxLen) :
       fs = [q \in Paths |-> IF q = p THEN File(c) ELSE NoFile]
  /\ pageFiles = <<>>
  /\ insertFiles = NoRecords
  /\ wrapFiles = NoRecords
  /\ options = Options(NoLimit)
  /\ call = Idle
  /\ eng = newEngine(<<>>)
  /\ NotWatching

SetRegistry(reg) ==
  /\ pageFiles' = reg.pageFiles
  /\ insertFiles' = reg.insertFiles
  /\ wrapFiles' = reg.wrapFiles

Registers(p, r) ==
  /\ SetRegistry(r.reg)
  /\ call' = [op |-> "hashFile", path |-> p, threw |-> r.threw,
              input |-> fs[p].content, conds |-> {}]

ClipRegister ==
  /\ call = Idle
  /\ \E p \in ClipPaths :
       /\ fs[p].exists
       /\ Registers(p, hashFile(Registry, createFileObject(p, fs[p].content)))
  /\ UNCHANGED <<fs, options, eng>>
  /\ UNCHANGED watchVars

ReturnsContent(content, opts, r) ==
  /\ r.settled
  /\ SetRegistry(r.reg)
  /\ options' = setOptions(opts)
  /\ call' = [op |-> "processContent", threw |-> FALSE,
              input |-> content, output |-> r.content]

\* processContent(content, basePath, {dev: {limitIterations: 1}})
ClipProcessContent ==
  /\ call = Idle
  /\ \E p \in ClipPaths :
       /\ fs[p].exists
       /\ ReturnsContent(fs[p].content, Options(1),
                         processContent(fs[p].content, "cwd", Options(1),
                                        Registry, fs))
  /\ UNCHANGED <<fs, eng>>
  /\ UNCHANGED watchVars

NextClip == ClipRegister \/ ClipProcessContent
SpecClip == InitClip /\ [][NextClip]_vars

(***************************************************************************)
(* Clip claims.  Loaded is the content as createFileObject loads it,       *)
(* Stored the content of the record the registry holds after hashFile.     *)
(***************************************************************************)
RECURSIVE IsSubseq(_, _)
IsSubseq(a, b) ==
  IF a = <<>> THEN TRUE
  ELSE IF b = <<>> THEN FALSE
  ELSE IF Head(a) = Head(b) THEN IsSubseq(Tail(a), Tail(b))
  ELSE IsSubseq(a, Tail(b))

IsPrefix(a, b) == Len(a) <= Len(b) /\ SubSeq(b, 1, Len(a)) = a
IsSuffix(a, b) == Len(a) <= Len(b) /\ SubSeq(b, Len(b) - Len(a) + 1, Len(b)) = a
LastIndex(s, toks) == CHOOSE i \in 1..Len(s) :
  s[i] \in toks /\ \A j \in (i + 1)..Len(s) : s[j] \notin toks

Registered(p) ==
  \/ p \in DOMAIN insertFiles
  \/ p \in DOMAIN wrapFiles
  \/ \E n \in 1..Len(pageFiles) : pageFiles[n].path = p
StoredAt(p) ==
  IF p \in DOMAIN insertFiles THEN insertFiles[p].content
  ELSE IF p \in DOMAIN wrapFiles THEN wrapFiles[p].content
  ELSE pageFiles[CHOOSE n \in 1..Len(pageFiles) : pageFiles[n].path = p].content

Hashed == call.op = "hashFile"
Loaded == trim(call.input)
Stored == StoredAt(call.path)

\* a ClipBefore tag followed by a ClipAfter tag, and the text between the
\* first ClipBefore tag and the first ClipAfter tag after it
HasBracket(t) ==
  \E i, j \in 1..Len(t) : i < j /\ t[i] = ClipBeforeTag /\ t[j] = ClipAfterTag
Interior(t) ==
  LET i == FirstIndex(t, {ClipBeforeTag})
      rest == SubSeq(t, i + 1, Len(t))
  IN SubSeq(rest, 1, FirstIndex(rest, {ClipAfterTag}) - 1)

\* C1: a file whose content holds a ClipBefore tag followed by a ClipAfter tag
\* is stored with text from between the two tags only: what is stored is made
\* of characters of the interior, in their order, and holds neither tag.
C1_BracketingClip ==
  (Hashed /\ HasBracket(Loaded) /\ Registered(call.path)) =>
    /\ IsSubseq(Stored, Interior(Loaded))
    /\ ~Contains(Stored, {ClipBeforeTag, ClipAfterTag})

\* a ClipBetween tag followed by an EndClipBetween tag
HasExcision(t) ==
  \E i, j \in 1..Len(t) : i < j /\ t[i] = ClipBetweenTag /\ t[j] = EndClipBetweenTag
BeforeOpening(t) == SubSeq(t, 1, FirstIndex(t, {ClipBetweenTag}) - 1)
AfterClosing(t) == SubSeq(t, LastIndex(t, {EndClipBetweenTag}) + 1, Len(t))

\* the text of t that is no clip tag
Plain(t) == SelectSeq(t, LAMBDA x : x \notin ClipTags)

\* C2: a file whose content holds ClipBetween ... EndClipBetween (and no
\* ClipBefore) is registered with all the text before the opening tag and all
\* the text after the closing tag kept, in order, whatever the number of
\* ClipBetween and EndClipBetween tags.  Stated on the text that is no clip
\* tag: what stands before the first ClipBetween tag opens the stored content,
\* what stands after the last EndClipBetween tag ends it.
C2_ExcisionKeepsTheRest ==
  (Hashed /\ HasExcision(Loaded)
     /\ ~Contains(Loaded, {ClipBeforeTag, ClipBeforeBad})) =>
    /\ Registered(call.path)
    /\ IsPrefix(Plain(BeforeOpening(Loaded)), Plain(Stored))
    /\ IsSuffix(Plain(AfterClosing(Loaded)), Plain(Stored))
    /\ Len(Plain(Stored)) >=
         Len(Plain(BeforeOpening(Loaded))) + Len(Plain(AfterClosing(Loaded)))

\* an opening clip tag without its closing counterpart, or one that does not
\* match the tag pattern
Malformed(t) ==
  \/ Contains(t, {ClipBeforeTag, ClipBeforeBad}) /\ ~HasBracket(t)
  \/ Contains(t, {ClipBetweenTag, ClipBetweenBad}) /\ ~HasExcision(t)

\* C3: registering a file with a malformed clip marker does not throw,
\* registers the record with its content as loaded, and reports
\* InvalidDirective.
C3_MalformedClipIsHarmless ==
  (Hashed /\ Malformed(Loaded)) =>
    /\ ~call.threw
    /\ Registered(call.path)
    /\ Stored = Loaded
    /\ "InvalidDirective" \in call.conds

NoTags(t) == \A i \in 1..Len(t) : t[i] \in {"a", WS}
ContentProcessed == call.op = "processContent"

\* C4 as claimed: processContent returns a content without directive tags
\* character for character, leading and trailing whitespace included.
C4_ReturnedUnchanged ==
  (ContentProcessed /\ NoTags(call.input)) => call.output = call.input

\* C4, amended: processContent returns a content without directive tags with
\* its leading and trailing whitespace removed and nothing else changed.
C4_ReturnedTrimmed ==
  (ContentProcessed /\ NoTags(call.input)) => call.output = trim(call.input)

C4_Witness ==
  /\ ContentProcessed
  /\ call.input = <<WS, "a", WS, "a">>
  /\ call.output = <<"a", WS, "a">>

(***************************************************************************)
(* The engine specification: processFile on one page, followed pass by     *)
(* pass, over fragments that may insert one another in a cycle.            *)
(***************************************************************************)
HostTexts ==
  {<<"x">>, <<"x", InsertITag>>, <<InsertITag, InsertJTag>>,
   <<WrapWTag, "x", InsertJTag, EndWrapTag>>}
TextsOfI == {<<"a">>, <<"a", InsertJTag>>, <<InsertITag>>}
TextsOfJ == {<<"b">>, <<"b", InsertITag>>}
ShellTexts == {<<"w", MiddleTag>>}
FilesOf(texts) == {NoFile} \cup {File(c) : c \in texts}

RegistryIs(reg) ==
  /\ pageFiles = reg.pageFiles
  /\ insertFiles = reg.insertFiles
  /\ wrapFiles = reg.wrapFiles

RECURSIVE hashAll(_, _, _)
hashAll(reg, files, todo) ==
  IF todo = <<>> THEN reg
  ELSE hashAll(loadOne(reg, files, Head(todo)), files, Tail(todo))

InitEngine ==
  /\ \E host \in HostTexts, fi \in FilesOf(TextsOfI), fj \in FilesOf(TextsOfJ),
        fw \in FilesOf(ShellTexts) :
       /\ fs = [q \in Paths |->
                  CASE q = PageP -> File(host) [] q = InsI -> fi
                    [] q = InsJ -> fj [] q = WrapW -> fw [] OTHER -> NoFile]
       /\ \E loaded \in SUBSET {InsI, InsJ} :
            RegistryIs(hashAll(EmptyRegistry, fs,
                               SelectSeq(PathOrder, LAMBDA q : q \in loaded)))
       /\ eng = newEngine(createFileObject(PageP, host).content)
  /\ \E limit \in {NoLimit} \cup 1..MaxLimit : options = setOptions(Options(limit))
  /\ call = [op |-> "processFile"]
  /\ NotWatching

EngineIs(r) ==
  /\ eng' = r.e
  /\ SetRegistry(r.reg)

EnginePass ==
  /\ eng.state = "Scanning"
  /\ eng.passes < MaxPasses
  /\ EngineIs(engineStep(eng, Registry, fs, limitOf(options)))
  /\ UNCHANGED <<fs, options, call>>
  /\ UNCHANGED watchVars

NextEngine == EnginePass
SpecEngine == InitEngine /\ [][NextEngine]_vars

\* A inserts B and B inserts A, and the page inserts one of them
CyclicInserts ==
  /\ fs[InsI].exists /\ Contains(fs[InsI].content, {InsertJTag})
  /\ fs[InsJ].exists /\ Contains(fs[InsJ].content, {InsertITag})
  /\ Contains(fs[PageP].content, InsertTags)
  /\ ~HasWrap(fs[PageP].content)

Config(destDir, opts, hasFiles, files) ==
  [srcDir |-> SrcDir, destDir |-> destDir, options |-> opts,
   hasFiles |-> hasFiles, files |-> files]   \* hasFiles: config.files is not null

\* discoverFiles: the .html files under the directory, in readdir order
discoverFiles(files) == SelectSeq(PathOrder, LAMBDA p : files[p].exists)

\* path.join(destDir, path.relative(srcDir, file.path))
relative(from, filePath) ==
  [dir |-> IF filePath.dir = from THEN "." ELSE "sub", name |-> filePath.name]
destPathOf(config, filePath) ==
  [root |-> config.destDir, rel |-> relative(config.srcDir, filePath)]

NoPage == createFileObject(PageP, <<>>)

newBuild(config) ==
  [pc |-> "start", config |-> config, allFiles |-> <<>>, i |-> 1, k |-> 1,
   file |-> NoPage, results |-> <<>>, writes |-> <<>>, log |-> <<>>]

Awaiting == {"discover", "read", "processing", "write"}
Ended == {"done", "failed"}
\* "pending": the awaited processFile never settles
Resting == Awaiting \cup Ended \cup {"pending"}

Step(b, reg, opts) == [b |-> b, reg |-> reg, options |-> opts]
Event(ev, k, filePath) == [ev |-> ev, k |-> k, path |-> filePath]

\* afterProcessed with the write of lines 57-60 not awaited
afterProcessed_noWrite(config) == "loop"

\* where the build goes once processFile has settled: line 56
afterProcessed(config) == IF config.destDir # "" THEN "write" ELSE "loop"

\* lines 40-42: the file is read, made a file object and hashed
fileRead(b, st, p, h) ==
  IF ~st.fs[p].exists \/ h.threw
  THEN Step([b EXCEPT !.pc = "failed"], st.reg, st.options)
  ELSE Step([b EXCEPT !.pc = "readloop", !.i = @ + 1], h.reg, st.options)

\* lines 47-48: the array iterator of pageFiles yields its k-th element
nextPage(b, st, pages) ==
  IF b.k <= Len(pages)
  THEN Step([b EXCEPT !.pc = "processing", !.file = pages[b.k],
                      !.log = Append(@, Event("start", b.k, pages[b.k].path))],
            st.reg, st.options)
  ELSE Step([b EXCEPT !.pc = "done"], st.reg, st.options)

\* lines 48-56: processFile has settled and its result is pushed
fileProcessed(b, st, r, next) ==
  IF ~r.settled THEN Step([b EXCEPT !.pc = "pending"], st.reg, st.options)
  ELSE Step([b EXCEPT !.pc = next,
                      !.k = IF next = "loop" THEN @ + 1 ELSE @,
                      !.results = Append(@, [path |-> b.file.path,
                                             name |-> b.file.name,
                                             content |-> r.content]),
                      !.log = Append(@, Event("settle", b.k, b.file.path))],
            r.reg, st.options)

\* one step of processDirectory on the state st = [reg, options, fs]
microStep(b, st) ==
  CASE b.pc = "start" ->                                       \* lines 25-36
         Step(IF b.config.hasFiles
              THEN [b EXCEPT !.pc = "readloop", !.allFiles = b.config.files]
              ELSE [b EXCEPT !.pc = "discover"],
              st.reg, setOptions(b.config.options))
    [] b.pc = "discover" ->                                    \* line 36
         Step([b EXCEPT !.pc = "readloop", !.allFiles = discoverFiles(st.fs)],
              st.reg, st.options)
    [] b.pc = "readloop" ->                                    \* line 39
         Step([b EXCEPT !.pc = IF b.i <= Len(b.allFiles) THEN "read" ELSE "loop"],
              st.reg, st.options)
    [] b.pc = "read" ->                                        \* lines 40-42
         fileRead(b, st, b.allFiles[b.i],
                  hashFile(st.reg,
                           createFileObject(b.allFiles[b.i],
                                            st.fs[b.allFiles[b.i]].content)))
    [] b.pc = "loop" -> nextPage(b, st, st.reg.pageFiles)      \* lines 47-48
    [] b.pc = "processing" ->                                  \* lines 48-56
         fileProcessed(b, st, processFile(b.file, st.reg, st.fs, st.options),
                       afterProcessed(b.config))
    [] b.pc = "write" ->                                       \* lines 57-60
         Step([b EXCEPT !.pc = "loop", !.k = @ + 1,
                        !.writes = Append(@,
                           [path |-> destPathOf(b.config, b.file.path),
                            content |-> b.results[Len(b.results)].content]),
                        !.log = Append(@, Event("write", b.k, b.file.path))],
              st.reg, st.options)
    [] OTHER -> Step(b, st.reg, st.options)

StateOf(r, files) == [reg |-> r.reg, options |-> r.options, fs |-> files]

\* run on to the next await or to the end
RECURSIVE toAwait(_, _)
toAwait(r, files) ==
  IF r.b.pc \in Resting THEN r
  ELSE toAwait(microStep(r.b, StateOf(r, files)), files)

\* the awaited operation completes and the build runs on to its next await
advance(b, st) == toAwait(microStep(b, st), st.fs)

\* the call itself: processDirectory(config) up to its first await
startBuild(config, st) == toAwait(Step(newBuild(config), st.reg, st.options), st.fs)

\* a call that is awaited to its end, nothing else running in between
RECURSIVE runBuild(_, _)
runBuild(r, files) ==
  IF r.b.pc \notin Awaiting THEN r
  ELSE runBuild(advance(r.b, StateOf(r, files)), files)

processDirectory(config, st) == runBuild(startBuild(config, st), st.fs)

(***************************************************************************)
(* core.mjs: loadDependencies and processSingleFile.                       *)
(***************************************************************************)
\* isDependency taking every file for a dependency
isDependency_any(p) == TRUE

isDependency(p) ==                                             \* line 131
  startsWith(basename(p), "-") \/ startsWith(basename(p), "_")

hashDependency(r, files, p) ==                                 \* lines 132-134
  IF isDependency(p)
  THEN hashFile(r.reg, createFileObject(p, files[p].content))
  ELSE r

RECURSIVE hashDependencies(_, _, _)
hashDependencies(r, files, todo) ==                            \* lines 128-136
  IF todo = <<>> \/ r.threw THEN r
  ELSE hashDependencies(hashDependency(r, files, Head(todo)), files, Tail(todo))

dependenciesLoaded(r, opts) ==
  [threw |-> r.threw, reg |-> r.reg, options |-> opts]

loadDependencies(opts, st) ==
  dependenciesLoaded(hashDependencies([threw |-> FALSE, reg |-> st.reg], st.fs,
                                      discoverFiles(st.fs)),
                     setOptions(opts))

singleResult(file, r, opts) ==
  [threw |-> FALSE, settled |-> r.settled, reg |-> r.reg, options |-> opts,
   result |-> [path |-> file.path, name |-> file.name, content |-> r.content]]

processSingleFileOf(file, opts, st) ==                         \* lines 79-86
  singleResult(file, processFile(file, st.reg, st.fs, opts), opts)

processSingleFile(filePath, opts, st) ==
  IF ~st.fs[filePath].exists                                   \* readFile rejects
  THEN [threw |-> TRUE, settled |-> TRUE, reg |-> st.reg,
        options |-> setOptions(opts),
        result |-> [path |-> filePath, name |-> basename(filePath),
                    content |-> <<>>]]
  ELSE processSingleFileOf(createFileObject(filePath, st.fs[filePath].content),
                           setOptions(opts), st)

(***************************************************************************)
(* The API specification: one caller calls the exported functions one      *)
(* after the other, awaiting each, while the source tree is edited between *)
(* the calls.                                                              *)
(***************************************************************************)
TreeFiles(p) ==
  CASE p = PageP -> FilesOf({<<WS, "x", InsertITag>>})
    [] p = PageQ -> FilesOf({<<WrapWTag, "y", EndWrapTag>>})
    [] p = InsI -> FilesOf({<<"a">>, <<ClipBeforeTag, "b", ClipAfterTag>>,
                            <<ClipBetweenBad>>})
    [] p = WrapW -> FilesOf({<<"w", MiddleTag>>})
    [] OTHER -> {NoFile}
Trees == {t \in [Paths -> UNION {TreeFiles(p) : p \in Paths}] :
            \A p \in Paths : t[p] \in TreeFiles(p)}

Configs ==
  {Config("dist", Options(NoLimit), FALSE, <<>>),
   Config("", Options(1), TRUE, <<PageQ, PageP>>),
   Config("dist", Options(NoLimit), TRUE, <<PageP, PageP>>)}

State == [reg |-> Registry, options |-> options, fs |-> fs]
RegisteredPaths(reg) ==
  {reg.pageFiles[n].path : n \in 1..Len(reg.pageFiles)}
    \cup DOMAIN reg.insertFiles \cup DOMAIN reg.wrapFiles

Init ==
  /\ fs \in Trees
  /\ pageFiles = <<>>
  /\ insertFiles = NoRecords
  /\ wrapFiles = NoRecords
  /\ options = Options(NoLimit)
  /\ call = Idle
  /\ eng = newEngine(<<>>)
  /\ NotWatching

\* what reset removed, when the call before this one was reset()
ClearedBefore == IF call.op = "reset" THEN call.cleared ELSE {}

DirectoryProcessed(config, r) ==
  /\ r.b.pc \in Ended
  /\ SetRegistry(r.reg)
  /\ options' = r.options
  /\ call' = [op |-> "processDirectory", afterReset |-> call.op = "reset",
              cleared |-> ClearedBefore, before |-> RegisteredPaths(Registry),
              config |-> config, threw |-> r.b.pc = "failed",
              results |-> r.b.results, writes |-> r.b.writes]

ProcessDirectory ==
  /\ \E config \in Configs :
       DirectoryProcessed(config, processDirectory(config, State))
  /\ UNCHANGED <<fs, eng>>
  /\ UNCHANGED watchVars

DependenciesLoaded(r) ==
  /\ SetRegistry(r.reg)
  /\ options' = r.options
  /\ call' = [op |-> "loadDependencies", threw |-> r.threw,
              before |-> RegisteredPaths(Registry), pagesBefore |-> pageFiles]

LoadDependencies ==
  /\ DependenciesLoaded(loadDependencies(Options(NoLimit), State))
  /\ UNCHANGED <<fs, eng>>
  /\ UNCHANGED watchVars

SingleFileProcessed(p, r) ==
  /\ r.settled
  /\ SetRegistry(r.reg)
  /\ options' = r.options
  /\ call' = [op |-> "processSingleFile", threw |-> r.threw,
              input |-> fs[p].content, output |-> r.result.content]

ProcessSingleFile ==
  /\ \E p \in {PageP, PageQ} :
       SingleFileProcessed(p, processSingleFile(p, Options(NoLimit), State))
  /\ UNCHANGED <<fs, eng>>
  /\ UNCHANGED watchVars

ProcessContent ==
  /\ \E content \in {<<"x", InsertITag>>} :
       ReturnsContent(content, Options(NoLimit),
                      processContent(content, "cwd", Options(NoLimit),
                                     Registry, fs))
  /\ UNCHANGED <<fs, eng>>
  /\ UNCHANGED watchVars

Reset ==
  /\ SetRegistry(reset(Registry))
  /\ call' = [op |-> "reset", cleared |-> RegisteredPaths(Registry)]
  /\ UNCHANGED <<fs, options, eng>>
  /\ UNCHANGED watchVars

\* a file of the source tree is written or removed between two calls
EditTree ==
  /\ \E p \in Paths : \E f \in TreeFiles(p) :
       /\ f # fs[p]
       /\ fs' = [fs EXCEPT ![p] = f]
  /\ call' = IF call.op = "reset" THEN call ELSE Idle
  /\ UNCHANGED <<pageFiles, insertFiles, wrapFiles, options, eng>>
  /\ UNCHANGED watchVars

Next ==
  \/ ProcessDirectory
  \/ LoadDependencies
  \/ ProcessSingleFile
  \/ ProcessContent
  \/ Reset
  \/ EditTree

Spec == Init /\ [][Next]_vars

(***************************************************************************)
(* Claims on reset and the registry.                                       *)
(***************************************************************************)
\* C6: in the state right after reset() the page collection is empty and
\* the insert and wrap collections have no keys, whatever calls came before.
C6_ResetClearsAll ==
  call.op = "reset" =>
    /\ pageFiles = <<>>
    /\ DOMAIN insertFiles = {}
    /\ DOMAIN wrapFiles = {}

\* reset() has just cleared a registry that held a page, an insert and a wrap
C6_Witness ==
  /\ call.op = "reset"
  /\ {PageP, InsI, WrapW} \subseteq call.cleared
  /\ Registry = EmptyRegistry

FreshState == [reg |-> EmptyRegistry, options |-> Options(NoLimit), fs |-> fs]
Fresh(config) == processDirectory(config, FreshState).b

\* Calls that are awaited one after the other do not leak: a
\* processDirectory call made right after reset() throws, returns and writes
\* exactly what the same call does on an empty registry.
AwaitedCallsDoNotLeak ==
  (call.op = "processDirectory" /\ call.afterReset) =>
    /\ call.threw = (Fresh(call.config).pc = "failed")
    /\ call.results = Fresh(call.config).results
    /\ call.writes = Fresh(call.config).writes

Distinct(seq) ==
  \A m, n \in 1..Len(seq) : m # n => seq[m].path # seq[n].path

\* at most one record per path
KeysUnique ==
  /\ Distinct(pageFiles)
  /\ \A p \in DOMAIN insertFiles : insertFiles[p].path = p
  /\ \A p \in DOMAIN wrapFiles : wrapFiles[p].path = p

\* Calls that are awaited one after the other, with or without reset() in
\* between, keep one record per path and return and write one result per
\* page.
AwaitedCallsKeepKeysUnique ==
  /\ KeysUnique
  /\ call.op = "processDirectory" =>
       /\ Distinct(call.results)
       /\ Distinct(call.writes)

(***************************************************************************)
(* Claims on processDirectory and loadDependencies.                        *)
(***************************************************************************)
\* the page paths a call is given: config.files, or the pages under srcDir
PagePaths == {PageP, PageQ}
Given(config) ==
  IF config.hasFiles
  THEN {config.files[n] : n \in 1..Len(config.files)}
  ELSE {p \in Paths : fs[p].exists}

\* the file can be read and clipped
Sound(p) ==
  /\ fs[p].exists
  /\ ~processClip(createFileObject(p, fs[p].content)).threw

HasResult(records, p) == \E n \in 1..Len(records) : records[n].path = p
HasWrite(config, records, p) ==
  \E n \in 1..Len(records) : records[n].path = destPathOf(config, p)

\* what the caller gets: nothing when the call rejects
Returned == IF call.threw THEN <<>> ELSE call.results

\* C11: a failure confined to one file (a read error, a clip fault) does
\* not abort the build: every page the call is given that can be read and
\* clipped is processed, written to destDir when destDir is set, and
\* included in the returned results.
C11_FailureIsolation ==
  call.op = "processDirectory" =>
    \A p \in Given(call.config) \cap PagePaths :
      Sound(p) =>
        /\ HasResult(Returned, p)
        /\ call.config.destDir # "" => HasWrite(call.config, call.writes, p)

PathsOf(records) == {records[n].path : n \in 1..Len(records)}
Discovered == {p \in Paths : fs[p].exists}

WatchFilesOf(p) ==
  CASE p = PageP -> FilesOf({<<"x", InsertITag>>})
    [] p = PageQ -> {File(<<"y">>)}
    [] p = InsI -> {File(<<ClipBeforeTag, "a", ClipAfterTag>>),
                    File(<<ClipBeforeBad>>)}
    [] OTHER -> {NoFile}
WatchTrees == {t \in [Paths -> UNION {WatchFilesOf(p) : p \in Paths}] :
                 \A p \in Paths : t[p] \in WatchFilesOf(p)}

WatchConfigs ==
  {Config("dist", Options(NoLimit), FALSE, <<>>),
   Config("", Options(NoLimit), FALSE, <<>>)}

\* processDirectory(config) has run up to its first await
Called(r) ==
  /\ builds = <<r.b>>
  /\ RegistryIs(r.reg)
  /\ options = r.options

InitWatch ==
  /\ fs \in WatchTrees
  /\ \E config \in WatchConfigs :                              \* cli.mjs line 35
       Called(startBuild(config, [reg |-> EmptyRegistry,
                                  options |-> Options(NoLimit), fs |-> fs]))
  /\ call = Idle
  /\ eng = newEngine(<<>>)
  /\ debounceTimer = "off"
  /\ watcher = "none"

Stepped(n, r) ==
  /\ builds' = [builds EXCEPT ![n] = r.b]
  /\ SetRegistry(r.reg)
  /\ options' = r.options

\* a rejected processDirectory of a rebuild left uncaught: the unhandled
\* rejection ends the process
rebuildSettled_uncaught(n, b, w) ==
  IF n > 1 /\ b.pc = "failed" THEN "exited" ELSE w

\* cli.mjs lines 172-177: the rejection of a rebuild's processDirectory is
\* caught and printed, and the process goes on as it was
rebuildSettled(n, b, w) == w

\* an awaited readdir, readFile, processFile or writeFile of a build
\* completes; the build runs on to its next await or to its end
BuildStep ==
  /\ watcher # "exited"
  /\ \E n \in DOMAIN builds :
       /\ builds[n].pc \in Awaiting
       /\ Stepped(n, advance(builds[n], State))
       /\ watcher' = rebuildSettled(n, advance(builds[n], State).b, watcher)
  /\ UNCHANGED <<fs, call, eng, debounceTimer>>

\* cli.mjs lines 39-41: the initial build has returned
WatchFiles ==
  /\ watcher = "none"
  /\ builds[1].pc = "done"
  /\ watcher' = "watching"
  /\ UNCHANGED <<fs, pageFiles, insertFiles, wrapFiles, options, call, eng,
                 builds, debounceTimer>>

\* cli.mjs lines 42-45: the initial build has thrown
ExitOnError ==
  /\ watcher = "none"
  /\ builds[1].pc = "failed"
  /\ watcher' = "exited"
  /\ UNCHANGED <<fs, pageFiles, insertFiles, wrapFiles, options, call, eng,
                 builds, debounceTimer>>

\* cli.mjs lines 181-193 and 167-169: a change, add or unlink event; the
\* events are followed as long as the rebuild they ask for is
FileEvent ==
  /\ watcher = "watching"
  /\ Len(builds) < MaxBuilds
  /\ \E p \in Paths : \E f \in WatchFilesOf(p) :
       /\ f # fs[p]
       /\ fs' = [fs EXCEPT ![p] = f]
  /\ debounceTimer' = "armed"
  /\ UNCHANGED <<pageFiles, insertFiles, wrapFiles, options, call, eng,
                 builds, watcher>>

Rebuilding(r) ==
  /\ builds' = Append(builds, r.b)
  /\ SetRegistry(r.reg)
  /\ options' = r.options

\* cli.mjs lines 169 and 178: the 100 ms of the armed timer pass
TimerDue ==
  /\ debounceTimer = "armed"
  /\ debounceTimer' = "due"
  /\ UNCHANGED <<fs, pageFiles, insertFiles, wrapFiles, options, call, eng,
                 builds, watcher>>

\* cli.mjs lines 169-178: the timer's callback, up to the first await of
\* processDirectory
TimerFires ==
  /\ debounceTimer = "due"
  /\ Len(builds) < MaxBuilds
  /\ Rebuilding(startBuild(builds[1].config,
                           [reg |-> reset(Registry), options |-> options,
                            fs |-> fs]))
  /\ debounceTimer' = "off"
  /\ UNCHANGED <<fs, call, eng, watcher>>

NextWatch ==
  \/ BuildStep
  \/ WatchFiles
  \/ ExitOnError
  \/ FileEvent
  \/ TimerDue
  \/ TimerFires

SpecWatch == InitWatch /\ [][NextWatch]_vars

\* time passes, and the event loop runs the callback of a timer that is due
SpecWatchLive == SpecWatch /\ WF_vars(TimerDue) /\ WF_vars(TimerFires)

(***************************************************************************)
(* Claims on the watch driver and on the order of the pages.               *)
(***************************************************************************)
InProgress == {n \in DOMAIN builds : builds[n].pc \in Awaiting}

\* C9: in watch mode a rebuild's reset() and processDirectory never run
\* while an earlier processDirectory call is still in progress: at most one
\* build is in progress at any time.
C9_OneBuildAtATime == Cardinality(InProgress) <= 1

\* the last rebuild that is followed; the tree is not edited after its call
LastRebuild == builds[MaxBuilds]

\* C7: a processDirectory call made right after reset() throws, returns and
\* writes exactly what the same call does in a fresh process with an empty
\* registry, whatever earlier builds registered: here for the rebuild of
\* the watch driver, which calls reset() and then processDirectory(config).
C7_NoCrossBuildLeakage ==
  (Len(builds) = MaxBuilds /\ LastRebuild.pc \in Ended) =>
    /\ (LastRebuild.pc = "failed") = (Fresh(LastRebuild.config).pc = "failed")
    /\ LastRebuild.results = Fresh(LastRebuild.config).results
    /\ LastRebuild.writes = Fresh(LastRebuild.config).writes

\* C8: the registry holds at most one record per path, and no
\* processDirectory call returns or writes two results for the same page
\* path, with or without reset() between the calls.
C8_RegistryKeysUnique ==
  /\ KeysUnique
  /\ \A n \in DOMAIN builds :
       /\ Distinct(builds[n].results)
       /\ Distinct(builds[n].writes)

\* the event that ends a page: its write when destDir is set, else its settle
lastOfPage(config) == IF config.destDir # "" THEN "write" ELSE "settle"

InOrder(log, config) ==
  \A m \in 1..Len(log) :
    /\ log[m].ev = "start" =>
         \/ m = 1 /\ log[m].k = 1
         \/ /\ m > 1
            /\ log[m - 1].ev = lastOfPage(config)
            /\ log[m].k = log[m - 1].k + 1
    /\ log[m].ev = "settle" =>
         m > 1 /\ log[m - 1] = Event("start", log[m].k, log[m].path)
    /\ log[m].ev = "write" =>
         /\ config.destDir # ""
         /\ m > 1 /\ log[m - 1] = Event("settle", log[m].k, log[m].path)

Settled(log) == SelectSeq(log, LAMBDA e : e.ev = "settle")
Written(log) == SelectSeq(log, LAMBDA e : e.ev = "write")
SamePaths(events, records) ==
  /\ Len(events) = Len(records)
  /\ \A m \in 1..Len(events) : events[m].path = records[m].path

Sequential(b) ==
  /\ InOrder(b.log, b.config)
  /\ SamePaths(Settled(b.log), b.results)
  /\ Len(Written(b.log)) = Len(b.writes)
  /\ b.pc = "done" /\ b.log # <<>> => b.log[Len(b.log)].ev = lastOfPage(b.config)

\* C10: within a processDirectory call the pages are started one after the
\* other in the order of the page array; a page is started only when the
\* page before it has settled and, when destDir is set, has been written;
\* the results are in the order in which the pages were started.
C10_OneDocumentAtATime == \A n \in DOMAIN builds : Sequential(builds[n])

\* the second page of a build with a destDir is being processed: the first
\* has settled and has been written
C10_Witness ==
  \E n \in DOMAIN builds :
    /\ builds[n].config.destDir # ""
    /\ builds[n].pc = "processing"
    /\ builds[n].k = 2
    /\ Len(builds[n].results) = 1
    /\ Len(builds[n].writes) = 1

\* the record the registry holds for a path
RecordOf(p) ==
  IF p \in DOMAIN insertFiles THEN insertFiles[p]
  ELSE IF p \in DOMAIN wrapFiles THEN wrapFiles[p]
  ELSE pageFiles[CHOOSE n \in 1..Len(pageFiles) : pageFiles[n].path = p]

\* the contents a file of the watched tree can be stored with: clipped
ClippedContents(p) ==
  {processClip(createFileObject(p, f.content)).file.content :
     f \in {g \in WatchFilesOf(p) :
              g.exists /\ ~processClip(createFileObject(p, g.content)).threw}}

BuildCalled == Len(builds') > Len(builds)

\* the timer goes off only by its callback, which calls reset() and then
\* processDirectory with the configuration of the initial build: the
\* rebuild starts from an empty registry
RebuildsFromEmpty ==
  [][(BuildCalled \/ (debounceTimer # "off" /\ debounceTimer' = "off")) =>
       /\ debounceTimer = "due"
       /\ debounceTimer' = "off"
       /\ watcher = "watching"
       /\ builds' = Append(builds, builds'[Len(builds')])
       /\ builds'[Len(builds')].config = builds[1].config
       /\ builds'[Len(builds')].pc = "discover"
       /\ Registry' = EmptyRegistry]_vars

\* C14: once watching, every file event is eventually followed by a rebuild
\* that starts after it, and every rebuild calls reset() and then
\* processDirectory with the same configuration, from an empty registry.
C14_RebuildOnEveryChange ==
  /\ (debounceTimer = "armed") ~> (debounceTimer = "off")
  /\ RebuildsFromEmpty

\* C14 as it holds: a file event is followed by a rebuild unless file
\* events keep arriving, each within 100 ms of the one before, for ever.
C14_RebuildOnceEventsPause ==
  /\ <>[][~FileEvent]_vars =>
       ((debounceTimer = "armed") ~> (debounceTimer = "off"))
  /\ RebuildsFromEmpty

\* a rebuild has started after a file event, on a registry that the initial
\* build had filled
C14_Witness ==
  /\ watcher = "watching"
  /\ Len(builds) = 2
  /\ builds[1].results # <<>>
  /\ builds[2].pc = "discover"
  /\ debounceTimer = "off"
  /\ Registry = EmptyRegistry

(***************************************************************************)
(* config-loader.mjs.  A JavaScript value is a record with its kind: the   *)
(* primitives carry their value, a string its characters, an array its     *)
(* items, a plain object its own enumerable properties; "exotic" is an     *)
(* object that is no plain object and has no enumerable property of its    *)
(* own (a RegExp, a Date); "path" is a non-empty string that names a file. *)
(***************************************************************************)
Null == [kind |-> "null"]
JsUndefined == [kind |-> "undefined"]
Bool(b) == [kind |-> "boolean", value |-> b]
Num(n) == [kind |-> "number", value |-> n]
Str(chars) == [kind |-> "string", chars |-> chars]
Arr(items) == [kind |-> "array", items |-> items]
Obj(props) == [kind |-> "object", props |-> props]
Exotic(name) == [kind |-> "exotic", name |-> name]
NoProps == [k \in {} |-> Null]
EmptyObject == Obj(NoProps)

\* typeof v === 'object'
typeofObject(v) == v.kind \in {"null", "array", "object", "exotic"}

\* !v
falsy(v) ==
  \/ v.kind \in {"null", "undefined"}
  \/ v.kind = "boolean" /\ ~v.value
  \/ v.kind = "number" /\ v.value = 0
  \/ v.kind = "string" /\ v.chars = <<>>

\* the property names "0", "1", ... of a string or an array
IndexKey == <<"0", "1", "2", "3", "4", "5", "6", "7", "8">>
indexed(items, wrap(_)) ==
  [k \in {IndexKey[n] : n \in 1..Len(items)} |->
     wrap(items[CHOOSE n \in 1..Len(items) : IndexKey[n] = k])]
Char(c) == Str(<<c>>)
Same(v) == v

\* { ...v }: the own enumerable properties of v
spread(v) ==
  CASE v.kind = "object" -> v.props
    [] v.kind = "string" -> indexed(v.chars, Char)
    [] v.kind = "array" -> indexed(v.items, Same)
    [] OTHER -> NoProps

\* for (const key in v): the enumerable property names of v
keysIn(v) == DOMAIN spread(v)

\* v[key]
get(v, key) == IF key \in DOMAIN spread(v) THEN spread(v)[key] ELSE JsUndefined

\* a || b
orElse(a, b) == IF falsy(a) THEN b ELSE a

\* mergeConfig line 310: the value is merged into, not taken as it is
merged_in(v) == v.kind # "null" /\ typeofObject(v) /\ v.kind # "array"

RECURSIVE mergeConfig(_, _)
mergeConfig(defaults, user) ==
  Obj([key \in keysIn(defaults) \cup keysIn(user) |->
         IF key \notin keysIn(user) THEN get(defaults, key)
         ELSE IF merged_in(get(user, key))
         THEN mergeConfig(orElse(get(defaults, key), EmptyObject), get(user, key))
         ELSE get(user, key)])

\* a record as a plain object
Plain1(k1, v1) == Obj([k \in {k1} |-> v1])

devDefaults ==
  Obj([k \in {"limitIterations", "printIterations", "printResult", "printPaths"} |->
         IF k = "limitIterations" THEN Null ELSE Bool(FALSE)])
optionsDefaults ==
  Obj([k \in {"jsonInput", "insertPattern", "filePathAttribute",
              "jsonPathAttribute", "rawJsonPlugins", "dev"} |->
         CASE k = "jsonInput" -> EmptyObject
           [] k = "insertPattern" -> Null
           [] k = "filePathAttribute" -> Str(<<"p", "a", "t", "h">>)
           [] k = "jsonPathAttribute" -> Str(<<"j", "s", "o", "n", "P", "a", "t", "h">>)
           [] k = "rawJsonPlugins" -> EmptyObject
           [] k = "dev" -> devDefaults])
defaultConfig ==
  Obj([k \in {"srcDir", "destDir", "options", "files", "watch"} |->
         CASE k = "srcDir" -> Str(<<".", "/", "s", "r", "c">>)
           [] k = "destDir" -> Str(<<".", "/", "d", "i", "s", "t">>)
           [] k = "options" -> optionsDefaults
           [] k = "files" -> Null
           [] k = "watch" -> Bool(FALSE)])

(***************************************************************************)
(* Configuration files.  A path is a directory, a base name and an         *)
(* extension (the characters from the last dot on, "" when there is no     *)
(* dot after the first character); the file at a path either is absent or  *)
(* holds what reading it yields: the value its JSON text denotes, the      *)
(* namespace of the module it defines, or a text that is neither.          *)
(***************************************************************************)
ConfigPath(dir, name, ext) ==
  [kind |-> "path", dir |-> dir, name |-> name, ext |-> ext]
Unparsable == [kind |-> "unparsable"]
configFile(content) == [exists |-> TRUE, content |-> content]
noConfigFile == [exists |-> FALSE, content |-> Unparsable]

\* the file at a path: absent at a path nothing was written to
fileAt(files, filePath) ==
  IF filePath \in DOMAIN files THEN files[filePath] ELSE noConfigFile

\* String.prototype.toLowerCase on the characters of an extension
lowerOf(c) ==
  CASE c = "J" -> "j" [] c = "S" -> "s" [] c = "O" -> "o" [] c = "N" -> "n"
    [] c = "M" -> "m" [] OTHER -> c
toLowerCase(chars) == [n \in 1..Len(chars) |-> lowerOf(chars[n])]

\* path.extname
extname(configPath) == configPath.ext

DotJson == <<".", "j", "s", "o", "n">>
DotJs == <<".", "j", "s">>
DotMjs == <<".", "m", "j", "s">>

\* lines 289-292: fs.readFile, then JSON.parse
loadJsonConfig(files, filePath) ==
  IF ~fileAt(files, filePath).exists THEN Thrown(<<"ENOENT">>)
  ELSE IF files[filePath].content = Unparsable THEN Thrown(<<"SyntaxError">>)
  ELSE Value(files[filePath].content)

\* lines 297-301: import(), then module.default || module
loadJsConfig(files, filePath) ==
  IF ~fileAt(files, filePath).exists THEN Thrown(<<"ERR_MODULE_NOT_FOUND">>)
  ELSE IF files[filePath].content = Unparsable THEN Thrown(<<"SyntaxError">>)
  ELSE Value(orElse(get(files[filePath].content, "default"),
                    files[filePath].content))

\* lines 270-277: the loader chosen by the extension
loaded(files, configPath, ext) ==
  IF ext = DotJson THEN loadJsonConfig(files, configPath)
  ELSE IF ext = DotJs \/ ext = DotMjs THEN loadJsConfig(files, configPath)
  ELSE Thrown(<<"Unsupported configuration file format: ", ext>>)

\* lines 278-280 and 283
loadedConfig(configPath, userConfig) ==
  IF userConfig.threw
  THEN Thrown(<<"Failed to load configuration from ", configPath, ": ">>
                \o userConfig.content)
  ELSE Value(mergeConfig(defaultConfig, userConfig.content))

\* loadConfig letting the loader's error through as it is
loadConfig_unwrapped(files, configPath) ==
  LET userConfig == loaded(files, configPath, toLowerCase(extname(configPath)))
  IN  IF userConfig.threw THEN userConfig
      ELSE Value(mergeConfig(defaultConfig, userConfig.content))

loadConfig(files, configPath) ==
  loadedConfig(configPath, loaded(files, configPath, toLowerCase(extname(configPath))))

\* lines 328-334
possibleNames ==
  << <<"htmlincluder.config", DotMjs>>, <<"htmlincluder.config", DotJs>>,
     <<"htmlincluder.config", DotJson>>, <<".htmlincluderrc", DotJson>>,
     <<".htmlincluderrc", DotJs>> >>

\* path.join(startDir, name)
join(startDir, name) == ConfigPath(startDir, name[1], name[2])

\* fs.access(configPath) resolves
accessible(files, configPath) == fileAt(files, configPath).exists

\* lines 336-346, from the n-th name on
RECURSIVE findFrom(_, _, _, _)
findFrom(files, startDir, names, n) ==
  IF n > Len(names) THEN Null
  ELSE IF accessible(files, join(startDir, names[n])) THEN join(startDir, names[n])
  ELSE findFrom(files, startDir, names, n + 1)

\* findConfig trying the names from the last to the first
RECURSIVE findBack(_, _, _, _)
findBack(files, startDir, names, n) ==
  IF n < 1 THEN Null
  ELSE IF accessible(files, join(startDir, names[n])) THEN join(startDir, names[n])
  ELSE findBack(files, startDir, names, n - 1)
findConfig_lastFirst(files, startDir) ==
  findBack(files, startDir, possibleNames, Len(possibleNames))

findConfig(files, startDir) == findFrom(files, startDir, possibleNames, 1)

\* lines 364-372
validOptions(opts) ==
  IF falsy(opts) THEN Value(TRUE)
  ELSE IF ~falsy(get(opts, "dev")) /\ ~typeofObject(get(opts, "dev"))
  THEN Thrown(<<"Configuration options.dev must be an object">>)
  ELSE IF /\ ~falsy(get(opts, "rawJsonPlugins"))
          /\ ~typeofObject(get(opts, "rawJsonPlugins"))
  THEN Thrown(<<"Configuration options.rawJsonPlugins must be an object">>)
  ELSE Value(TRUE)

\* lines 355-375
validateConfig(config) ==
  IF falsy(get(config, "srcDir"))
  THEN Thrown(<<"Configuration must specify srcDir">>)
  ELSE IF ~falsy(get(config, "files")) /\ get(config, "files").kind # "array"
  THEN Thrown(<<"Configuration files must be an array">>)
  ELSE validOptions(get(config, "options"))

\* lines 386-387 and 388-437: the text written is the JSON text of
\* defaultConfig, or a module whose default export has the same properties
defaultText(format) ==
  IF format = "json" THEN defaultConfig ELSE Plain1("default", defaultConfig)

\* lines 383-442: fs.writeFile(outputPath, content)
createDefaultConfig(files, outputPath, format) ==
  [files EXCEPT ![outputPath] = configFile(defaultText(format))]

(***************************************************************************)
(* cli.mjs: resolveConfig and the commands that use the configuration.     *)
(***************************************************************************)
Cwd == "cwd"

\* obj[key] = value on a plain object
setProp(obj, key, value) ==
  Obj([k \in DOMAIN obj.props \cup {key} |->
         IF k = key THEN value ELSE obj.props[k]])

\* lines 129-133
builtInConfig ==
  Obj([k \in {"srcDir", "destDir", "options"} |->
         CASE k = "srcDir" -> Str(<<".", "/", "s", "r", "c">>)
           [] k = "destDir" -> Str(<<".", "/", "d", "i", "s", "t">>)
           [] k = "options" -> EmptyObject])

\* lines 124-134
discovered(files, configPath) ==
  IF ~falsy(configPath) THEN loadConfig(files, configPath) ELSE Value(builtInConfig)

\* lines 119-135
chosenConfig(files, cliOptions) ==
  IF ~falsy(cliOptions.config) THEN loadConfig(files, cliOptions.config)
  ELSE discovered(files, findConfig(files, Cwd))

\* lines 138-140
withSrc(config, cliOptions) ==
  IF ~falsy(cliOptions.src) THEN setProp(config, "srcDir", cliOptions.src) ELSE config

\* lines 142-144
withDest(config, cliOptions) ==
  IF ~falsy(cliOptions.dest) THEN setProp(config, "destDir", cliOptions.dest)
  ELSE config

\* lines 147-149
validated(config) ==
  IF validateConfig(config).threw THEN validateConfig(config) ELSE Value(config)

\* resolveConfig returning the configuration without validating it
resolved_unvalidated(chosen, cliOptions) ==
  IF chosen.threw THEN chosen
  ELSE Value(withDest(withSrc(chosen.content, cliOptions), cliOptions))

resolved(chosen, cliOptions) ==
  IF chosen.threw THEN chosen
  ELSE validated(withDest(withSrc(chosen.content, cliOptions), cliOptions))

\* lines 115-150
resolveConfig(files, cliOptions) == resolved(chosenConfig(files, cliOptions), cliOptions)

(***************************************************************************)
(* The configuration loader applied to one file: a file of some name in    *)
(* the working directory holds a user configuration, or a text that is     *)
(* none, or is absent; loadConfig and validateConfig are called on it.     *)
(***************************************************************************)
Func == [kind |-> "function"]
Absent == [kind |-> "absent"]

\* the plain object of the properties that are not absent
objectOf(f) == Obj([k \in {k \in DOMAIN f : f[k] # Absent} |-> f[k]])

SrcDirValues == {Absent, Str(<<"a">>), Str(<<>>), Num(0), Plain1("x", Num(1))}
FilesValues ==
  {Absent, Null, Arr(<<Str(<<"p">>)>>), Str(<<"p">>), Str(<<>>), Bool(FALSE)}
DevValues ==
  {Absent, Null, Plain1("limitIterations", Num(3)), Bool(TRUE), Bool(FALSE),
   Arr(<<>>)}
PluginValues == {Absent, Plain1("f", Func), Num(1), Num(0)}
JsonInputValues == {Absent, Plain1("title", Str(<<"t">>)), Plain1("built", Exotic("Date"))}
OptionsValues ==
  {Absent, Null, Bool(TRUE)} \cup
  {objectOf([k \in {"dev", "rawJsonPlugins", "jsonInput"} |->
      CASE k = "dev" -> d [] k = "rawJsonPlugins" -> p [] k = "jsonInput" -> j]) :
     d \in DevValues, p \in PluginValues, j \in JsonInputValues}

userConfig(srcDir, files, opts) ==
  objectOf([k \in {"srcDir", "files", "options"} |->
     CASE k = "srcDir" -> srcDir [] k = "files" -> files [] k = "options" -> opts])

UserConfigs ==
  {userConfig(s, f, Absent) : s \in SrcDirValues, f \in FilesValues}
    \cup {userConfig(Str(<<"a">>), Absent, o) : o \in OptionsValues}
    \cup {userConfig(Absent, Arr(<<>>), o) : o \in {Null, Plain1("dev", Bool(TRUE))}}

\* what JSON text can denote
RECURSIVE isJson(_)
isJson(v) ==
  CASE v.kind \in {"null", "boolean", "number", "string"} -> TRUE
    [] v.kind = "array" -> \A n \in 1..Len(v.items) : isJson(v.items[n])
    [] v.kind = "object" -> \A k \in DOMAIN v.props : isJson(v.props[k])
    [] OTHER -> FALSE

JsonContents == {c \in UserConfigs : isJson(c)} \cup {Null, Unparsable}
ModuleContents ==
  UserConfigs \cup {Plain1("default", c) : c \in UserConfigs} \cup {Unparsable}

LoaderExts ==
  {DotJson, <<".", "J", "S", "O", "N">>, DotJs, DotMjs, <<".", "M", "j", "s">>,
   <<".", "y", "a", "m", "l">>, <<>>}
LoaderPaths == {ConfigPath(Cwd, "my", e) : e \in LoaderExts}
ContentsAt(configPath) ==
  IF toLowerCase(extname(configPath)) \in {DotJs, DotMjs} THEN ModuleContents
  ELSE JsonContents

InitLoader ==
  /\ \/ fs = [q \in LoaderPaths |-> noConfigFile]
     \/ \E p \in LoaderPaths : \E c \in ContentsAt(p) :
          fs = [q \in LoaderPaths |-> IF q = p THEN configFile(c) ELSE noConfigFile]
  /\ pageFiles = <<>>
  /\ insertFiles = NoRecords
  /\ wrapFiles = NoRecords
  /\ options = Options(NoLimit)
  /\ call = Idle
  /\ eng = newEngine(<<>>)
  /\ NotWatching

\* await loadConfig(configPath)
LoadConfig ==
  /\ \E configPath \in LoaderPaths :
       call' = [op |-> "loadConfig", configPath |-> configPath,
                result |-> loadConfig(fs, configPath)]
  /\ UNCHANGED <<fs, pageFiles, insertFiles, wrapFiles, options, eng, watchVars>>

\* the configurations validateConfig is given: what a file holds, and what
\* loadConfig returned
Validated ==
  {fs[p].content : p \in {q \in LoaderPaths : fs[q].exists /\ fs[q].content.kind = "object"}}
    \cup (IF call.op = "loadConfig" /\ ~call.result.threw
          THEN {call.result.content} ELSE {})

\* validateConfig(config)
ValidateConfig ==
  /\ \E config \in Validated :
       call' = [op |-> "validateConfig", config |-> config, after |-> config,
                result |-> validateConfig(config)]
  /\ UNCHANGED <<fs, pageFiles, insertFiles, wrapFiles, options, eng, watchVars>>

NextLoader == LoadConfig \/ ValidateConfig
SpecLoader == InitLoader /\ [][NextLoader]_vars

(***************************************************************************)
(* Claims on the configuration loader, checked in SpecLoader.              *)
(***************************************************************************)
\* the user configuration the last loadConfig read
UserLoaded == loaded(fs, call.configPath, toLowerCase(extname(call.configPath)))
LoadReturned == call.op = "loadConfig" /\ ~call.result.threw

\* r is d with u laid over it: a key u lacks keeps d's value; a key at which
\* both hold a plain object is laid over in the same way; at every other key
\* u's value stands as it is
RECURSIVE LaidOver(_, _, _)
LaidOver(r, d, u) ==
  /\ r.kind = "object"
  /\ keysIn(r) = keysIn(d) \cup keysIn(u)
  /\ \A key \in keysIn(r) :
       IF key \notin keysIn(u) THEN get(r, key) = get(d, key)
       ELSE IF get(u, key).kind = "object" /\ get(d, key).kind = "object"
       THEN LaidOver(get(r, key), get(d, key), get(u, key))
       ELSE get(r, key) = get(u, key)

\* C15: what loadConfig returns has, at every key, the user's value when the
\* user configuration defines the key and the default otherwise, plain
\* objects nested in both being merged key by key and every other user value
\* standing as it is.
C15_UserOverDefaults ==
  (LoadReturned /\ UserLoaded.content.kind = "object") =>
     LaidOver(call.result.content, defaultConfig, UserLoaded.content)

\* lines 56-58
formatOf(cliOptions) == IF cliOptions.format = "json" THEN "json" ELSE "js"
extOf(format) == IF format = "json" THEN DotJson ELSE DotMjs
outputPathOf(cliOptions) ==
  orElse(cliOptions.output,
         ConfigPath(Cwd, "htmlincluder.config", extOf(formatOf(cliOptions))))

\* fs.writeFile(outputPath, ...) resolves: the directory is there
NoDir == "nodir"
writable(outputPath) == outputPath.dir # NoDir

\* lines 63-64, 69-70 and 72-73: what the command prints on stderr, its
\* exit code (0 when the process ends by itself) and the paths
\* createDefaultConfig wrote
exists_already(files, outputPath) ==
  [files |-> files, exit |-> 1, written |-> <<>>,
   error |-> <<"Error: Configuration file already exists at ", outputPath>>]
write_failed(files, outputPath) ==
  [files |-> files, exit |-> 1, written |-> <<>>,
   error |-> <<"Error creating configuration:", "ENOENT">>]
created(files, outputPath, format) ==
  [files |-> createDefaultConfig(files, outputPath, format), exit |-> 0,
   written |-> <<outputPath>>, error |-> <<>>]

\* the init command writing without looking
initialised_overwriting(files, cliOptions, outputPath) ==
  IF ~writable(outputPath) THEN write_failed(files, outputPath)
  ELSE created(files, outputPath, formatOf(cliOptions))

\* lines 55-74
initialised(files, cliOptions, outputPath) ==
  IF accessible(files, outputPath) THEN exists_already(files, outputPath)
  ELSE IF ~writable(outputPath) THEN write_failed(files, outputPath)
  ELSE created(files, outputPath, formatOf(cliOptions))

\* lines 30-46 and 84-105: the command goes on to process files with the
\* configuration resolveConfig returned, or exits with code 1
started(config) ==
  [exit |-> IF config.threw THEN 1 ELSE 0,
   processing |-> IF config.threw THEN <<>> ELSE <<config.content>>]

(***************************************************************************)
(* The command line in a working directory: some of the names findConfig   *)
(* looks for exist, each holding a configuration of its own; at most one   *)
(* of the files is unusable (no configuration at all, or one without       *)
(* srcDir).                                                                 *)
(***************************************************************************)
OtherDir == "other"
MyJson == ConfigPath(Cwd, "my", DotJson)
MyYaml == ConfigPath(Cwd, "my", <<".", "y", "a", "m", "l">>)
Discoverable == {join(Cwd, possibleNames[n]) : n \in 1..Len(possibleNames)}
CliPaths ==
  Discoverable \cup {join(OtherDir, possibleNames[3]), MyJson, MyYaml,
                     ConfigPath(OtherDir, "my", DotJson),
                     ConfigPath(NoDir, "my", DotJson)}

\* the configuration a file of the tree holds: its directories tell the
\* files apart
configAt(configPath) ==
  userConfig(Str(<<"src of ", configPath.name>> \o configPath.ext),
             Absent, Plain1("dev", Plain1("printPaths", Bool(TRUE))))
unusableAt(configPath, how) ==
  IF how = "unparsable" THEN Unparsable
  ELSE userConfig(Str(<<>>), Absent, Absent)

\* what reading the file yields: a module exports its configuration
contentAt(configPath, config) ==
  IF config = Unparsable THEN Unparsable
  ELSE IF toLowerCase(extname(configPath)) \in {DotJs, DotMjs}
  THEN Plain1("default", config)
  ELSE config

cliTree(existing, unusable, how) ==
  [p \in CliPaths |->
     IF p \notin existing THEN noConfigFile
     ELSE IF p \in unusable THEN configFile(contentAt(p, unusableAt(p, how)))
     ELSE configFile(contentAt(p, configAt(p)))]

\* at most two of the names findConfig looks for exist
CliTrees ==
  {cliTree(found \cup {join(OtherDir, possibleNames[3]), MyYaml} \cup mine,
           unusable, how) :
     found \in {names \in SUBSET Discoverable : Cardinality(names) <= 2},
     mine \in SUBSET {MyJson},
     unusable \in {{}} \cup {{p} : p \in {MyJson, join(Cwd, possibleNames[1]),
                                         join(Cwd, possibleNames[3])}},
     how \in {"unparsable", "no srcDir"}}

BuildOptions ==
  [config : {JsUndefined, MyJson, MyYaml},
   src : {JsUndefined, Str(<<>>), Str(<<"s">>)},
   dest : {JsUndefined, Str(<<"d">>)}]
ProcessOptions ==
  [config : {JsUndefined, MyJson}, src : {JsUndefined}, dest : {JsUndefined}]
InitOptions ==
  [format : {"js", "json", "yaml"},
   output : {JsUndefined, ConfigPath(OtherDir, "my", DotJson),
             ConfigPath(NoDir, "my", DotJson)}]

InitCli ==
  /\ fs \in CliTrees
  /\ pageFiles = <<>>
  /\ insertFiles = NoRecords
  /\ wrapFiles = NoRecords
  /\ options = Options(NoLimit)
  /\ call = Idle
  /\ eng = newEngine(<<>>)
  /\ NotWatching

\* htmlincluder build
BuildCommand ==
  /\ \E cliOptions \in BuildOptions :
       call' = [op |-> "build", cliOptions |-> cliOptions,
                outcome |-> started(resolveConfig(fs, cliOptions))]
  /\ UNCHANGED <<fs, pageFiles, insertFiles, wrapFiles, options, eng, watchVars>>

\* htmlincluder process <file>
ProcessCommand ==
  /\ \E cliOptions \in ProcessOptions :
       call' = [op |-> "process", cliOptions |-> cliOptions,
                outcome |-> started(resolveConfig(fs, cliOptions))]
  /\ UNCHANGED <<fs, pageFiles, insertFiles, wrapFiles, options, eng, watchVars>>

\* htmlincluder init
InitCommand ==
  /\ \E cliOptions \in InitOptions :
       /\ call' = [op |-> "init", cliOptions |-> cliOptions, before |-> fs,
                   outcome |-> initialised(fs, cliOptions, outputPathOf(cliOptions))]
       /\ fs' = initialised(fs, cliOptions, outputPathOf(cliOptions)).files
  /\ UNCHANGED <<pageFiles, insertFiles, wrapFiles, options, eng, watchVars>>

\* await findConfig(startDir)
FindConfig ==
  /\ \E startDir \in {Cwd, OtherDir} :
       call' = [op |-> "findConfig", startDir |-> startDir,
                result |-> findConfig(fs, startDir)]
  /\ UNCHANGED <<fs, pageFiles, insertFiles, wrapFiles, options, eng, watchVars>>

NextCli == BuildCommand \/ ProcessCommand \/ InitCommand \/ FindConfig
SpecCli == InitCli /\ [][NextCli]_vars

(***************************************************************************)
(* Claims on the command line, checked in SpecCli.                         *)
(***************************************************************************)
given(v) == ~falsy(v)
Commanded == call.op \in {"build", "process"}

\* the first of the five names that exists in the directory, if any
FirstNames(files, dir) ==
  {n \in 1..Len(possibleNames) :
     /\ fileAt(files, join(dir, possibleNames[n])).exists
     /\ \A m \in 1..(n - 1) : ~fileAt(files, join(dir, possibleNames[m])).exists}

\* the configuration the precedence selects: --config, else the discovered
\* file, else the built-in defaults
Selected(files, cliOptions) ==
  IF given(cliOptions.config) THEN loadConfig(files, cliOptions.config)
  ELSE IF FirstNames(files, Cwd) # {}
  THEN loadConfig(files, join(Cwd, possibleNames[CHOOSE n \in FirstNames(files, Cwd) : TRUE]))
  ELSE Value(Obj([k \in {"srcDir", "destDir", "options"} |->
                    CASE k = "srcDir" -> Str(<<".", "/", "s", "r", "c">>)
                      [] k = "destDir" -> Str(<<".", "/", "d", "i", "s", "t">>)
                      [] k = "options" -> EmptyObject]))

\* final is base with srcDir and destDir taken from --src and --dest when
\* these are given
Overridden(final, base, cliOptions) ==
  /\ final.kind = "object"
  /\ keysIn(final) = keysIn(base)
        \cup (IF given(cliOptions.src) THEN {"srcDir"} ELSE {})
        \cup (IF given(cliOptions.dest) THEN {"destDir"} ELSE {})
  /\ \A key \in keysIn(final) :
       get(final, key) =
         IF key = "srcDir" /\ given(cliOptions.src) THEN cliOptions.src
         ELSE IF key = "destDir" /\ given(cliOptions.dest) THEN cliOptions.dest
         ELSE get(base, key)

\* the command processes files with one configuration, the selected one
\* with the overrides, and only if that is valid; otherwise it processes
\* nothing and exits with code 1
ResolvedAs(outcome, selected, cliOptions) ==
  IF selected.threw THEN outcome.processing = <<>> /\ outcome.exit = 1
  ELSE \/ /\ Len(outcome.processing) = 1
          /\ Overridden(outcome.processing[1], selected.content, cliOptions)
          /\ ~validateConfig(outcome.processing[1]).threw
       \/ /\ outcome.processing = <<>> /\ outcome.exit = 1
          /\ \E final \in {withDest(withSrc(selected.content, cliOptions), cliOptions)} :
               /\ Overridden(final, selected.content, cliOptions)
               /\ validateConfig(final).threw

NamesInOrder ==
  << ConfigPath(Cwd, "htmlincluder.config", <<".", "m", "j", "s">>),
     ConfigPath(Cwd, "htmlincluder.config", <<".", "j", "s">>),
     ConfigPath(Cwd, "htmlincluder.config", <<".", "j", "s", "o", "n">>),
     ConfigPath(Cwd, ".htmlincluderrc", <<".", "j", "s", "o", "n">>),
     ConfigPath(Cwd, ".htmlincluderrc", <<".", "j", "s">>) >>
InDir(dir, configPath) == [configPath EXCEPT !.dir = dir]
ExistingNames(files, dir) ==
  {n \in 1..Len(NamesInOrder) : fileAt(files, InDir(dir, NamesInOrder[n])).exists}

\* C17: findConfig(startDir) returns the path of the first of the five names,
\* in the fixed order, that exists in startDir, and null exactly when none of
\* them exists there; it does not throw.
C17_FirstNameInOrder ==
  call.op = "findConfig" =>
    IF ExistingNames(fs, call.startDir) = {} THEN call.result = Null
    ELSE \E n \in ExistingNames(fs, call.startDir) :
           /\ call.result = InDir(call.startDir, NamesInOrder[n])
           /\ \A m \in ExistingNames(fs, call.startDir) : n <= m

\* two of the names exist, neither is the first of the five, and findConfig
\* returned the earlier one
C17_Witness ==
  /\ call.op = "findConfig"
  /\ Cardinality(ExistingNames(fs, call.startDir)) = 2
  /\ 1 \notin ExistingNames(fs, call.startDir)
  /\ \E n \in ExistingNames(fs, call.startDir) :
       call.result = InDir(call.startDir, NamesInOrder[n])

\* a key is set when it holds a value other than undefined and null
IsSet(v) == v.kind \notin {"undefined", "null"}
IsObject(v) == v.kind \in {"object", "array", "exotic"}

\* the invalid configurations as the claim lists them; a srcDir that is
\* undefined, null, '', 0 or false counts as missing or empty
Invalid(config) ==
  \/ ~IsSet(get(config, "srcDir"))
  \/ get(config, "srcDir") \in {Str(<<>>), Num(0), Bool(FALSE)}
  \/ IsSet(get(config, "files")) /\ get(config, "files").kind # "array"
  \/ /\ IsSet(get(get(config, "options"), "dev"))
     /\ ~IsObject(get(get(config, "options"), "dev"))
  \/ /\ IsSet(get(get(config, "options"), "rawJsonPlugins"))
     /\ ~IsObject(get(get(config, "options"), "rawJsonPlugins"))

\* C18: validateConfig throws exactly for the configurations in which srcDir
\* is missing or empty, files is set and is no array, or options.dev or
\* options.rawJsonPlugins is set and is no object; for every other one it
\* returns true; and the configuration is the same afterwards.
C18_RejectsExactlyInvalid ==
  call.op = "validateConfig" =>
    /\ call.result.threw <=> Invalid(call.config)
    /\ ~call.result.threw => call.result.content = TRUE
    /\ call.after = call.config

\* the output path of init: --output, else htmlincluder.config.json for the
\* json format and htmlincluder.config.mjs for every other
OutputPath(cliOptions) ==
  IF given(cliOptions.output) THEN cliOptions.output
  ELSE IF cliOptions.format = "json"
  THEN ConfigPath(Cwd, "htmlincluder.config", <<".", "j", "s", "o", "n">>)
  ELSE ConfigPath(Cwd, "htmlincluder.config", <<".", "m", "j", "s">>)

\* the file holds the default configuration, as JSON or as a module
HoldsDefaults(file) ==
  /\ file.exists
  /\ file.content \in {defaultConfig, Plain1("default", defaultConfig)}

InitRefused(before, after, outcome, out) ==
  /\ outcome.exit = 1
  /\ outcome.error # <<>>
  /\ outcome.written = <<>>
  /\ after = before

InitWrote(before, after, outcome, out) ==
  /\ outcome.exit = 0
  /\ outcome.written = <<out>>
  /\ HoldsDefaults(after[out])
  /\ \A p \in DOMAIN before : p # out => after[p] = before[p]

\* C19: when a file exists at the output path, init reports an error, exits
\* with code 1, does not call createDefaultConfig and leaves every file as it
\* was; it writes the default configuration, once, only when no file exists
\* there.
C19_InitNeverOverwrites ==
  call.op = "init" =>
    IF call.before[OutputPath(call.cliOptions)].exists
    THEN InitRefused(call.before, fs, call.outcome, OutputPath(call.cliOptions))
    ELSE \/ InitWrote(call.before, fs, call.outcome, OutputPath(call.cliOptions))
         \/ InitRefused(call.before, fs, call.outcome, OutputPath(call.cliOptions))

\* init ran where a configuration of the user's own was already in place
C19_Witness ==
  /\ call.op = "init"
  /\ call.before[OutputPath(call.cliOptions)].exists
  /\ ~HoldsDefaults(call.before[OutputPath(call.cliOptions)])
  /\ call.outcome.exit = 1

(***************************************************************************)
(* Claims on loadConfig's failures, checked in SpecLoader.                 *)
(***************************************************************************)
\* the extension without regard to case is one of .json, .js, .mjs
SupportedExt(ext) ==
  \E known \in {<<".", "j", "s", "o", "n">>, <<".", "j", "s">>, <<".", "m", "j", "s">>} :
    /\ Len(ext) = Len(known)
    /\ \A n \in 1..Len(ext) :
         \/ ext[n] = known[n]
         \/ <<ext[n], known[n]>> \in
              {<<"J", "j">>, <<"S", "s">>, <<"O", "o">>, <<"N", "n">>, <<"M", "m">>}

\* the file cannot be read, parsed or imported
Unusable(file) == ~file.exists \/ file.content = Unparsable

RebuildDelay == 100
Timer(id, left) == [id |-> id, left |-> left]
NoTimers ==
  [handle |-> 0, pending |-> {}, sinceEvent |-> RebuildDelay, unbuilt |-> 0]
Least(a, b) == IF a < b THEN a ELSE b

\* clearTimeout(handle)
clearTimeout(pending, handle) == {t \in pending : t.id # handle}

\* the handle of a new timer: one no pending timer and no variable holds
newHandle(pending, handle) ==
  CHOOSE id \in 1..(Cardinality(pending) + 2) :
    /\ id # handle
    /\ \A t \in pending : t.id # id
    /\ \A lower \in 1..(id - 1) : lower = handle \/ \E t \in pending : t.id = lower

\* the bursts no rebuild has started after, once one more event has come
unbuiltAfter(timers) ==
  IF timers.unbuilt = 0 THEN 1
  ELSE IF timers.sinceEvent >= RebuildDelay THEN Least(timers.unbuilt + 1, 2)
  ELSE timers.unbuilt

\* rebuild without line 168
rebuild_uncleared(timers) ==
  [handle |-> newHandle(timers.pending, timers.handle),
   pending |-> timers.pending
                 \cup {Timer(newHandle(timers.pending, timers.handle), RebuildDelay)},
   sinceEvent |-> 0,
   unbuilt |-> unbuiltAfter(timers)]

\* cli.mjs lines 167-169 and 178: clearTimeout(debounceTimer), then
\* debounceTimer = setTimeout(..., 100)
rebuild(timers) ==
  [handle |-> newHandle(clearTimeout(timers.pending, timers.handle), timers.handle),
   pending |-> clearTimeout(timers.pending, timers.handle)
                 \cup {Timer(newHandle(clearTimeout(timers.pending, timers.handle),
                                       timers.handle), RebuildDelay)},
   sinceEvent |-> 0,
   unbuilt |-> unbuiltAfter(timers)]

\* ms milliseconds pass
later(timers, ms) ==
  [timers EXCEPT
     !.pending = {Timer(t.id, IF t.left > ms THEN t.left - ms ELSE 0) : t \in timers.pending},
     !.sinceEvent = Least(timers.sinceEvent + ms, RebuildDelay)]

\* the event loop takes a timer to run its callback
taken(timers, t) == [timers EXCEPT !.pending = timers.pending \ {t}, !.unbuilt = 0]

DebounceConfigs == {Config("dist", Options(NoLimit), FALSE, <<>>)}

InitDebounce ==
  /\ fs \in WatchTrees
  /\ \E config \in DebounceConfigs :                           \* cli.mjs line 35
       Called(startBuild(config, [reg |-> EmptyRegistry,
                                  options |-> Options(NoLimit), fs |-> fs]))
  /\ call = Idle
  /\ eng = newEngine(<<>>)
  /\ debounceTimer = NoTimers
  /\ watcher = "none"

\* time passes
Tick ==
  /\ later(debounceTimer, TickMs) # debounceTimer
  /\ debounceTimer' = later(debounceTimer, TickMs)
  /\ UNCHANGED <<fs, pageFiles, insertFiles, wrapFiles, options, call, eng,
                 builds, watcher>>

\* cli.mjs lines 181-193 and 167-169: a change, add or unlink event
WatchEvent ==
  /\ watcher = "watching"
  /\ Len(builds) < MaxBuilds
  /\ \E p \in Paths : \E f \in WatchFilesOf(p) :
       /\ f # fs[p]
       /\ fs' = [fs EXCEPT ![p] = f]
  /\ debounceTimer' = rebuild(debounceTimer)
  /\ UNCHANGED <<pageFiles, insertFiles, wrapFiles, options, call, eng,
                 builds, watcher>>

\* cli.mjs lines 169-178: the callback of a timer that is due, up to the
\* first await of processDirectory
TimeoutCallback ==
  /\ Len(builds) < MaxBuilds
  /\ \E t \in debounceTimer.pending :
       /\ t.left = 0
       /\ debounceTimer' = taken(debounceTimer, t)
  /\ Rebuilding(startBuild(builds[1].config,
                           [reg |-> reset(Registry), options |-> options,
                            fs |-> fs]))
  /\ UNCHANGED <<fs, call, eng, watcher>>

NextDebounce ==
  \/ BuildStep
  \/ WatchFiles
  \/ ExitOnError
  \/ WatchEvent
  \/ Tick
  \/ TimeoutCallback

SpecDebounce == InitDebounce /\ [][NextDebounce]_vars

\* time passes, and the event loop runs the callback of a timer that is due
SpecDebounceLive == SpecDebounce /\ WF_vars(Tick) /\ WF_vars(TimeoutCallback)

(***************************************************************************)
(* Claims on the debounce, checked in SpecDebounceLive.                    *)
(***************************************************************************)
RebuildStarts == Len(builds') = Len(builds) + 1

\* a rebuild is reset() and processDirectory(config) on the empty registry,
\* started by a timer when 100 ms have passed since the last event, after
\* at least one event since the rebuild before; no timer is left pending
StartedByQuietTimer ==
  [][RebuildStarts =>
       /\ debounceTimer.sinceEvent >= RebuildDelay
       /\ debounceTimer.unbuilt >= 1
       /\ debounceTimer'.unbuilt = 0
       /\ debounceTimer'.pending = {}
       /\ builds'[Len(builds')].config = builds[1].config
       /\ builds'[Len(builds')].pc = "discover"
       /\ Registry' = EmptyRegistry]_vars

\* timers start rebuilds, nothing else takes one from the event loop
OnlyRebuildsTakeTimers ==
  [][debounceTimer'.unbuilt < debounceTimer.unbuilt => RebuildStarts]_vars

OneTimerPending == Cardinality(debounceTimer.pending) <= 1

\* C21 as stated: events less than 100 ms apart are coalesced; every burst
\* of events with gaps under 100 ms has one rebuild (reset and
\* processDirectory) of its own, started only after 100 ms have passed since
\* its last event; and at most one debounce timer is pending at any time.
C21_OneRebuildPerBurst ==
  /\ []OneTimerPending
  /\ [](debounceTimer.unbuilt <= 1)
  /\ StartedByQuietTimer
  /\ OnlyRebuildsTakeTimers

\* C21 amended: events are coalesced; a rebuild starts only after 100 ms
\* have passed since the last event and serves every burst since the rebuild
\* before, so a burst has at most one rebuild, and has one once the events
\* pause; at most one debounce timer is pending at any time.
C21_CoalescedRebuilds ==
  /\ []OneTimerPending
  /\ StartedByQuietTimer
  /\ OnlyRebuildsTakeTimers
  /\ <>[][~WatchEvent]_vars =>
       ((debounceTimer.unbuilt >= 1) ~> (debounceTimer.unbuilt = 0))

\* a burst of events has re-armed the timer: the second event came less than
\* 100 ms after the first, and one timer is pending
C21_Witness ==
  /\ watcher = "watching"
  /\ debounceTimer.unbuilt = 1
  /\ debounceTimer.handle = 2
  /\ debounceTimer.sinceEvent = 0
  /\ Cardinality(debounceTimer.pending) = 1

(***************************************************************************)
(* Claims on failing builds in watch mode, checked in SpecWatchLive.       *)
(***************************************************************************)
\* the n-th processDirectory call is a rebuild and has thrown
RebuildFailed(n) == n > 1 /\ n <= Len(builds) /\ builds[n].pc = "failed"

\* watching never stops once it has started, whatever a rebuild does
KeepsWatching == [][watcher = "watching" => watcher' = "watching"]_vars

\* the process exits only from the initial build's failure, before the
\* watcher is started, and a failed initial build never starts the watcher
ExitsOnlyAtFirstBuild ==
  /\ [][watcher' = "exited" /\ watcher # "exited" =>
          watcher = "none" /\ Len(builds) = 1 /\ builds[1].pc = "failed"]_vars
  /\ [](builds[1].pc = "failed" => watcher # "watching" /\ Len(builds) = 1)

\* a file event after a failed rebuild arms the timer like any other
SchedulesAfterFailure ==
  [][(\E n \in 1..Len(builds) : RebuildFailed(n)) /\ fs' # fs =>
       debounceTimer' = "armed"]_vars

\* and, as far as the events pause (see C14), the rebuild it schedules is run
RunsAfterFailure ==
  <>[][~FileEvent]_vars =>
    ((RebuildFailed(Len(builds)) /\ debounceTimer = "armed") ~>
       (\E n \in 1..Len(builds) : RebuildFailed(n) /\ Len(builds) > n))

====
